---- MODULE Spec2Model ----
(***************************************************************************)
(* Model of lib/index.js: the MerkleTree class (constructor, getLayers,    *)
(* getNextLayer, combinedHash, getRoot, getHexRoot, getProof, getHexProof, *)
(* verify) and the helpers getPairElement, bufArrToHexArr, sortAndConcat.  *)
(*                                                                         *)
(* A Buffer is a sequence of atoms.  An atom is a record [b, h]: a byte is *)
(* [b |-> 0..255, h |-> <<>>]; the 32-byte block produced by the digest    *)
(* primitive is the single atom [b |-> DigestTag, h |-> preimage], so the  *)
(* digest is an injective function of its input.  JavaScript arrays are    *)
(* objects with identity: they live in `heap`, and the fields of the tree  *)
(* hold array identifiers, so that in-place push() and aliasing are kept.  *)
(***************************************************************************)
EXTENDS Integers, Sequences, FiniteSets, TLC

\* ---------------------------------------------------------------- bounds
MaxLeaves == 5

\* ------------------------------------------------------- atoms and buffers
DigestTag == 256
UndefTag == -1
ReplacementChar == 65533
HexTag == -2
CharX == -3

Byte(n) == [b |-> n, h |-> <<>>]
Buf1(n) == <<Byte(n)>>

\* const EMPTY = Buffer.from([])
EMPTY == <<>>

\* the JavaScript value undefined (an absent argument); not a Buffer
Undefined == <<[b |-> UndefTag, h |-> <<>>]>>

\* the leaf values a caller supplies
LeafValues == {EMPTY, Buf1(1), Buf1(200)}

\* new SHA3(256).update(data).digest()
digest(data) == <<[b |-> DigestTag, h |-> data]>>

RECURSIVE compare(_, _)
\* Buffer.compare(a, b): byte-lexicographic, -1 / 0 / 1
compare(a, b) ==
  IF a = <<>> THEN (IF b = <<>> THEN 0 ELSE -1)
  ELSE IF b = <<>> THEN 1
  ELSE LET x == Head(a)
           y == Head(b)
           c == IF x.b # y.b THEN (IF x.b < y.b THEN -1 ELSE 1)
                ELSE compare(x.h, y.h)
       IN IF c # 0 THEN c ELSE compare(Tail(a), Tail(b))

\* Buffer.prototype.toString(): UTF-8 decoding; a byte below 0x80 is itself,
\* a byte that starts no valid sequence becomes U+FFFD
toString(buf) ==
  [i \in 1..Len(buf) |->
     IF buf[i].b >= 128 /\ buf[i].b < DigestTag
       THEN [b |-> ReplacementChar, h |-> <<>>]
       ELSE buf[i]]

\* x <= y on two Buffers: both are converted to strings, and the strings
\* are compared by code units; x <= y is !(y < x)
jsLessEq(x, y) == compare(toString(y), toString(x)) >= 0

RECURSIVE toHex(_)
\* buf.toString('hex'): two lowercase hex digits per byte
toHex(buf) ==
  IF buf = <<>> THEN <<>>
  ELSE LET x == Head(buf)
       IN (IF x.b = DigestTag THEN <<[b |-> HexTag, h |-> x.h]>>
           ELSE <<Byte(x.b \div 16), Byte(x.b % 16)>>) \o toHex(Tail(buf))

\* ---------------------------------------------------------------- helpers
\* variant: the pair is always taken at idx + 1
getPairElementNext(idx, layer) ==
  IF idx + 1 < Len(layer) THEN layer[idx + 2] ELSE Undefined

getPairElement(idx, layer) ==
  LET pairIdx == IF idx % 2 = 0 THEN idx + 1 ELSE idx - 1
  IN IF pairIdx < Len(layer) THEN layer[pairIdx + 1] ELSE Undefined

bufArrToHexArr(arr) ==
  [i \in 1..Len(arr) |-> <<Byte(0), Byte(CharX)>> \o toHex(arr[i])]

sortAndConcat(a, b) ==
  IF compare(a, b) <= 0 THEN a \o b ELSE b \o a

\* variant: the two buffers are concatenated in argument order, unsorted
combinedHashNoSort(first, second) ==
  IF first = Undefined
    THEN (IF second = Undefined THEN Undefined ELSE digest(second))
  ELSE IF second = Undefined THEN digest(first)
  ELSE digest(first \o second)

\* static combinedHash(first, second); a Buffer (even an empty one) is an
\* object and therefore truthy, only undefined is falsy
combinedHash(first, second) ==
  IF first = Undefined
    THEN (IF second = Undefined THEN Undefined ELSE digest(second))
  ELSE IF second = Undefined THEN digest(first)
  ELSE digest(sortAndConcat(first, second))

\* combinedHash throws when both arguments are absent
combinedHashThrows(first, second) == first = Undefined /\ second = Undefined

\* ------------------------------------------------------------------ state
VARIABLES pc, heap, _elements, _layers, _bufferElementPositionIndex, ret

vars == <<pc, heap, _elements, _layers, _bufferElementPositionIndex, ret>>

\* array identifiers: 0 is the caller's array, the others are allocated
Input == 0
NoArray == -1
NewId(h) == Cardinality(DOMAIN h)
Alloc(h, arr) == [i \in DOMAIN h \cup {NewId(h)} |-> IF i \in DOMAIN h THEN h[i] ELSE arr]

NoRet == [op |-> "none", arg |-> EMPTY, arg2 |-> EMPTY, proof |-> <<>>,
          val |-> EMPTY, list |-> <<>>, ok |-> FALSE, err |-> ""]

\* variant: a node whose pair is the sentinel is promoted without hashing
getNextLayerPromote(h, id) ==
  LET padded == IF Len(h[id]) % 2 = 1 THEN Append(h[id], EMPTY) ELSE h[id]
      next == [k \in 1..(Len(padded) \div 2) |->
                 IF padded[2 * k] = EMPTY THEN padded[2 * k - 1]
                 ELSE combinedHash(padded[2 * k - 1], padded[2 * k])]
      h1 == [h EXCEPT ![id] = padded]
  IN [heap |-> Alloc(h1, next), id |-> NewId(h1)]

\* variant: the sentinel is pushed onto a copy, the argument array is kept
getNextLayerCopy(h, id) ==
  LET padded == IF Len(h[id]) % 2 = 1 THEN Append(h[id], EMPTY) ELSE h[id]
      next == [k \in 1..(Len(padded) \div 2) |->
                 combinedHash(padded[2 * k - 1], padded[2 * k])]
  IN [heap |-> Alloc(h, next), id |-> NewId(h)]

\* getNextLayer(elements): pushes EMPTY onto the argument array in place
\* when its length is odd, and returns a new array of parents
getNextLayer(h, id) ==
  LET padded == IF Len(h[id]) % 2 = 1 THEN Append(h[id], EMPTY) ELSE h[id]
      next == [k \in 1..(Len(padded) \div 2) |->
                 combinedHash(padded[2 * k - 1], padded[2 * k])]
      h1 == [h EXCEPT ![id] = padded]
  IN [heap |-> Alloc(h1, next), id |-> NewId(h1)]

RECURSIVE getLayersLoop(_, _)
getLayersLoop(h, layers) ==
  IF Len(h[layers[Len(layers)]]) > 1
    THEN LET r == getNextLayer(h, layers[Len(layers)])
         IN getLayersLoop(r.heap, Append(layers, r.id))
    ELSE [heap |-> h, layers |-> layers]

\* getLayers(elements); the caller checks the 'empty tree' case
getLayers(h, id) == getLayersLoop(h, <<id>>)

RECURSIVE buildIndexSkipLast(_, _, _)
\* variant: the reduce stops one element early
buildIndexSkipLast(elems, i, memo) ==
  IF i >= Len(elems) THEN memo
  ELSE LET key == toHex(elems[i])
       IN buildIndexSkipLast(elems, i + 1,
            [k \in DOMAIN memo \cup {key} |-> IF k = key THEN i - 1 ELSE memo[k]])

RECURSIVE buildIndexFirstWins(_, _, _)
\* variant: a key already present keeps its position
buildIndexFirstWins(elems, i, memo) ==
  IF i > Len(elems) THEN memo
  ELSE LET key == toHex(elems[i])
       IN buildIndexFirstWins(elems, i + 1,
            [k \in DOMAIN memo \cup {key} |->
               IF k \in DOMAIN memo THEN memo[k] ELSE i - 1])

RECURSIVE buildIndex(_, _, _)
\* the reduce of the constructor: memo[el.toString('hex')] = index
buildIndex(elems, i, memo) ==
  IF i > Len(elems) THEN memo
  ELSE LET key == toHex(elems[i])
       IN buildIndex(elems, i + 1,
            [k \in DOMAIN memo \cup {key} |-> IF k = key THEN i - 1 ELSE memo[k]])

EmptyIndex == [k \in {} |-> 0]

AllInputs == UNION {[1..n -> LeafValues] : n \in 0..MaxLeaves}

Init ==
  /\ pc = "new"
  /\ \E leaves \in AllInputs : heap = [i \in {Input} |-> leaves]
  /\ _elements = NoArray
  /\ _layers = <<>>
  /\ _bufferElementPositionIndex = EmptyIndex
  /\ ret = NoRet

\* variant: no copy is made, the tree keeps the caller's array
spreadAlias(h, id) == [heap |-> h, id |-> id]

\* [...elements]: a new array with the same contents
spread(h, id) == [heap |-> Alloc(h, h[id]), id |-> NewId(h)]

\* variant: the constructor never pads
pushNever(h, id) == h

\* if (original_elements.length % 2 === 1) original_elements.push(EMPTY)
pushIfOdd(h, id) ==
  IF Len(h[id]) % 2 = 1 THEN [h EXCEPT ![id] = Append(h[id], EMPTY)] ELSE h

\* new MerkleTree(elements)
constructor ==
  /\ pc = "new"
  /\ LET c == spread(heap, Input)
         original_elements == c.id
         h1 == pushIfOdd(c.heap, original_elements)
         index == buildIndex(h1[original_elements], 1, EmptyIndex)
     IN IF Len(h1[original_elements]) = 0
          THEN /\ pc' = "failed"
               /\ ret' = [NoRet EXCEPT !.op = "constructor", !.err = "empty tree"]
               /\ UNCHANGED <<heap, _elements, _layers, _bufferElementPositionIndex>>
          ELSE LET r == getLayers(h1, original_elements)
               IN /\ pc' = "built"
                  /\ heap' = r.heap
                  /\ _elements' = original_elements
                  /\ _layers' = r.layers
                  /\ _bufferElementPositionIndex' = index
                  /\ ret' = [NoRet EXCEPT !.op = "constructor", !.ok = TRUE]

Range(f) == {f[i] : i \in DOMAIN f}

\* getRoot(): this._layers[this._layers.length - 1]?.[0]
getRoot == heap[_layers[Len(_layers)]][1]

\* getHexRoot(): no "0x" prefix
getHexRoot == toHex(getRoot)

RECURSIVE getProofLoop(_, _, _, _)
\* the while loop of getProof; current_layer is an array identifier, and
\* getNextLayer may push onto that array before reducing it
getProofLoop(h, current_layer, idx, result) ==
  IF Len(h[current_layer]) > 1
    THEN LET pairElement == getPairElement(idx, h[current_layer])
             pushed == IF pairElement # Undefined THEN pairElement ELSE EMPTY
             r == getNextLayer(h, current_layer)
         IN getProofLoop(r.heap, r.id, idx \div 2, Append(result, pushed))
    ELSE [heap |-> h, result |-> result]

\* typeof initialIdx !== 'number'
getProofThrows(el) == toHex(el) \notin DOMAIN _bufferElementPositionIndex

\* getProof(el), for an el that is in the index: the proof and the heap
\* the call leaves behind
getProofRun(el) ==
  getProofLoop(heap, _elements, _bufferElementPositionIndex[toHex(el)], <<>>)

getProof(el) == getProofRun(el).result

\* the arrays allocated by a call are local to it; the arrays that existed
\* before the call keep whatever the call did to them
Retain(h) == [i \in DOMAIN heap |-> h[i]]

RECURSIVE verifyLoop(_, _, _)
verifyLoop(proof, i, computedHash) ==
  IF i > Len(proof) THEN computedHash
  ELSE LET element == proof[i]
       IN verifyLoop(proof, i + 1,
            IF jsLessEq(computedHash, element)
              THEN combinedHash(computedHash, element)
              ELSE combinedHash(element, computedHash))

\* verify(proof, leaf): computedHash.equals(this.getRoot())
verify(proof, leaf) == verifyLoop(proof, 1, leaf) = getRoot

\* ----------------------------------------------------------- call inputs
\* every node value held in the stored layer stack
Nodes == UNION {Range(heap[_layers[i]]) : i \in DOMAIN _layers}

PaddedLeaves == Range(heap[_elements])

GeneratedProofs == {getProof(e) : e \in PaddedLeaves}

\* proofs handed to verify: the generated proofs, and each of them without
\* its first entry
ProofInputs == GeneratedProofs \cup {Tail(p) : p \in GeneratedProofs}

\* leaves handed to verify: caller values, one value no tree holds, and
\* every stored node value
LeafInputs == LeafValues \cup {Buf1(201)} \cup Nodes

\* elements handed to getProof and getHexProof
ElementInputs == LeafValues \cup {getRoot}

HashInputs == LeafValues \cup {Undefined}

\* ---------------------------------------------------------------- actions
GetRoot ==
  /\ pc = "built"
  /\ ret' = [NoRet EXCEPT !.op = "getRoot", !.val = getRoot, !.ok = TRUE]
  /\ UNCHANGED <<pc, heap, _elements, _layers, _bufferElementPositionIndex>>

GetHexRoot ==
  /\ pc = "built"
  /\ ret' = [NoRet EXCEPT !.op = "getHexRoot", !.val = getHexRoot, !.ok = TRUE]
  /\ UNCHANGED <<pc, heap, _elements, _layers, _bufferElementPositionIndex>>

GetProof ==
  /\ pc = "built"
  /\ \E el \in ElementInputs :
       IF getProofThrows(el)
         THEN /\ ret' = [NoRet EXCEPT !.op = "getProof", !.arg = el,
                           !.err = "Element does not exist in Merkle tree"]
              /\ UNCHANGED heap
         ELSE /\ ret' = [NoRet EXCEPT !.op = "getProof", !.arg = el,
                           !.proof = getProof(el), !.ok = TRUE]
              /\ heap' = Retain(getProofRun(el).heap)
  /\ UNCHANGED <<pc, _elements, _layers, _bufferElementPositionIndex>>

GetHexProof ==
  /\ pc = "built"
  /\ \E el \in ElementInputs :
       IF getProofThrows(el)
         THEN /\ ret' = [NoRet EXCEPT !.op = "getHexProof", !.arg = el,
                           !.err = "Element does not exist in Merkle tree"]
              /\ UNCHANGED heap
         ELSE /\ ret' = [NoRet EXCEPT !.op = "getHexProof", !.arg = el,
                           !.list = bufArrToHexArr(getProof(el)), !.ok = TRUE]
              /\ heap' = Retain(getProofRun(el).heap)
  /\ UNCHANGED <<pc, _elements, _layers, _bufferElementPositionIndex>>

Verify ==
  /\ pc = "built"
  /\ \E proof \in ProofInputs, leaf \in LeafInputs :
       ret' = [NoRet EXCEPT !.op = "verify", !.arg = leaf, !.proof = proof,
                 !.ok = verify(proof, leaf)]
  /\ UNCHANGED <<pc, heap, _elements, _layers, _bufferElementPositionIndex>>

\* a call of the static MerkleTree.combinedHash
CombinedHash ==
  /\ \E first \in HashInputs, second \in HashInputs :
       IF combinedHashThrows(first, second)
         THEN ret' = [NoRet EXCEPT !.op = "combinedHash", !.arg = first,
                        !.arg2 = second, !.err = "Invariant failed"]
         ELSE ret' = [NoRet EXCEPT !.op = "combinedHash", !.arg = first,
                        !.arg2 = second, !.val = combinedHash(first, second),
                        !.ok = TRUE]
  /\ UNCHANGED <<pc, heap, _elements, _layers, _bufferElementPositionIndex>>

Next ==
  \/ constructor
  \/ GetRoot
  \/ GetHexRoot
  \/ GetProof
  \/ GetHexProof
  \/ Verify
  \/ CombinedHash

Spec == Init /\ [][Next]_vars

\* ----------------------------------------------------------------- claims
Sibling(idx) == IF idx % 2 = 0 THEN idx + 1 ELSE idx - 1

RECURSIVE Pow2(_)
Pow2(n) == IF n = 0 THEN 1 ELSE 2 * Pow2(n - 1)

\* the greatest position of v in the padded leaf layer
LastPos(v) ==
  CHOOSE i \in 0..(Len(heap[_elements]) - 1) :
    /\ heap[_elements][i + 1] = v
    /\ \A j \in (i + 1)..(Len(heap[_elements]) - 1) : heap[_elements][j + 1] # v

\* the proof read off the stored layer stack for the leaf at position idx0
StackProof(idx0) ==
  [i \in 1..(Len(_layers) - 1) |->
     LET sib == Sibling(idx0 \div Pow2(i - 1))
         layer == heap[_layers[i]]
     IN IF sib < Len(layer) THEN layer[sib + 1] ELSE EMPTY]

\* the caller's leaves with the sentinel appended when their count is odd
PaddedInput ==
  IF Len(heap[Input]) % 2 = 1 THEN Append(heap[Input], EMPTY) ELSE heap[Input]

RECURSIVE verifySwapped(_, _, _)
\* the loop of verify with the other branch taken at every step
verifySwapped(proof, i, computedHash) ==
  IF i > Len(proof) THEN computedHash
  ELSE LET element == proof[i]
       IN verifySwapped(proof, i + 1,
            IF jsLessEq(computedHash, element)
              THEN combinedHash(element, computedHash)
              ELSE combinedHash(computedHash, element))

\* C1: every element of the padded leaf layer (the sentinel included) has a
\* proof, and verify accepts that proof for it against the tree's root
C1_Inclusion ==
  pc = "built" =>
    \A e \in PaddedLeaves : ~getProofThrows(e) /\ verify(getProof(e), e)

C1_Witness ==
  /\ pc = "built"
  /\ Len(heap[Input]) = 5
  /\ EMPTY \notin Range(heap[Input])
  /\ ret.op = "verify"
  /\ ret.arg = EMPTY
  /\ ret.proof = getProof(EMPTY)
  /\ ret.ok

\* C2 as stated: a tree built from one leaf x has root x and the layer stack
\* is the single layer [x]
C2_SingleLeafIsRoot ==
  (pc = "built" /\ Len(heap[Input]) = 1) =>
    /\ getRoot = heap[Input][1]
    /\ Len(_layers) = 1
    /\ heap[_layers[1]] = heap[Input]

\* C2 amended: a tree built from one leaf x has the leaf layer [x, sentinel],
\* a stack of two layers, and the root is the digest of x
C2_SingleLeafHashed ==
  (pc = "built" /\ Len(heap[Input]) = 1) =>
    /\ heap[_elements] = <<heap[Input][1], EMPTY>>
    /\ Len(_layers) = 2
    /\ heap[_layers[2]] = <<digest(heap[Input][1])>>
    /\ getRoot = digest(heap[Input][1])

C2_Witness ==
  /\ pc = "built"
  /\ heap[Input] = <<Buf1(1)>>
  /\ ret.op = "getRoot"
  /\ ret.val = digest(Buf1(1))

\* C3: whenever verify returns true, the leaf it was given is an element of
\* the padded leaf layer
C3_Soundness ==
  (pc = "built" /\ ret.op = "verify" /\ ret.ok) => ret.arg \in PaddedLeaves

\* C4: getProof succeeds exactly for the buffers of the padded leaf layer; for
\* any other buffer it fails with the not-found error, returns no proof and
\* leaves the leaf layer, the layer stack and the index unchanged
C4_NonMembership ==
  [][(pc = "built" /\ ret'.op = "getProof") =>
       /\ ret'.ok <=> ret'.arg \in PaddedLeaves
       /\ ret'.ok <=> toHex(ret'.arg) \in DOMAIN _bufferElementPositionIndex
       /\ ~ret'.ok =>
            /\ ret'.err = "Element does not exist in Merkle tree"
            /\ ret'.proof = <<>>
            /\ UNCHANGED <<heap, _elements, _layers, _bufferElementPositionIndex>>]_vars

C4_Witness ==
  /\ pc = "built"
  /\ ret.op = "getProof"
  /\ ~ret.ok
  /\ ret.arg = Buf1(200)
  /\ Buf1(200) \notin PaddedLeaves

\* C5: the index maps every leaf value to its greatest position in the padded
\* leaf layer, and getProof returns the proof of that position, whose first
\* entry is the sibling of the last occurrence
C5_LastWins ==
  /\ pc = "built" =>
       \A v \in PaddedLeaves : _bufferElementPositionIndex[toHex(v)] = LastPos(v)
  /\ (pc = "built" /\ ret.op = "getProof" /\ ret.ok) =>
       /\ ret.proof = StackProof(LastPos(ret.arg))
       /\ ret.proof[1] = heap[_elements][Sibling(LastPos(ret.arg)) + 1]

C5_Witness ==
  /\ pc = "built"
  /\ heap[Input] = <<Buf1(1), Buf1(200), Buf1(1), Buf1(1)>>
  /\ _bufferElementPositionIndex[toHex(Buf1(1))] = 3
  /\ ret.op = "getProof"
  /\ ret.arg = Buf1(1)
  /\ ret.proof[1] = Buf1(1)

\* C6: no call on a constructed tree changes the leaf layer, a stored layer,
\* the index or the root, and the caller's array is never modified
C6_Immutable ==
  [][/\ heap'[Input] = heap[Input]
     /\ pc = "built" =>
          /\ UNCHANGED <<heap, _elements, _layers, _bufferElementPositionIndex>>
          /\ getRoot' = getRoot]_vars

C6_Witness ==
  /\ pc = "built"
  /\ Len(heap[Input]) = 5
  /\ Len(heap[_layers[2]]) = 4
  /\ ret.op = "getProof"
  /\ ret.ok
  /\ ret.arg = heap[Input][5]

\* C7: combinedHash gives the same result with its arguments exchanged, also
\* when one of them is absent, and verify gives the same result when the
\* other branch of its comparison is taken at every step
C7_Commutative ==
  /\ (ret.op = "combinedHash" /\ ret.ok) =>
       ret.val = combinedHash(ret.arg2, ret.arg)
  /\ (ret.op = "combinedHash" /\ ~ret.ok) =>
       combinedHashThrows(ret.arg2, ret.arg)
  /\ (pc = "built" /\ ret.op = "verify") =>
       ret.ok = (verifySwapped(ret.proof, 1, ret.arg) = getRoot)

C7_Witness ==
  /\ ret.op = "combinedHash"
  /\ ret.ok
  /\ ret.arg = Buf1(200)
  /\ ret.arg2 = Buf1(1)
  /\ compare(ret.arg, ret.arg2) > 0

\* C8 as stated: a node paired with the sentinel gets the digest of the node
\* alone as its parent, and the step verify takes on a sentinel proof entry
\* produces a digest different from the digest of the computed value alone
C8_SentinelMismatch ==
  (pc = "built" /\ ret.op = "verify" /\ Len(ret.proof) >= 1
     /\ ret.proof[1] = EMPTY) =>
    verifyLoop(<<ret.proof[1]>>, 1, ret.arg) # digest(ret.arg)

\* C8 amended: a node paired with the sentinel gets the digest of the node
\* alone as its parent, and the step verify takes on a sentinel proof entry
\* produces that same digest
C8_SentinelAgrees ==
  /\ pc = "built" =>
       \A i \in 1..(Len(_layers) - 1) :
         \A k \in 1..(Len(heap[_layers[i]]) \div 2) :
           heap[_layers[i]][2 * k] = EMPTY =>
             /\ heap[_layers[i + 1]][k] = digest(heap[_layers[i]][2 * k - 1])
             /\ verifyLoop(<<EMPTY>>, 1, heap[_layers[i]][2 * k - 1])
                  = heap[_layers[i + 1]][k]
  /\ (pc = "built" /\ ret.op = "verify" /\ Len(ret.proof) >= 1
        /\ ret.proof[1] = EMPTY) =>
       verifyLoop(<<ret.proof[1]>>, 1, ret.arg) = digest(ret.arg)

C8_Witness ==
  /\ pc = "built"
  /\ heap[Input] = <<Buf1(1), Buf1(200), Buf1(1)>>
  /\ ret.op = "verify"
  /\ ret.arg = Buf1(1)
  /\ ret.proof = <<EMPTY, heap[_layers[2]][1]>>
  /\ ret.ok

\* C9 as stated: layer 0 is the padded leaf sequence, every stored layer is
\* exactly half the length of the one below, rounded up, and the last layer
\* has length 1
C9_ExactHalving ==
  pc = "built" =>
    /\ heap[_layers[1]] = PaddedInput
    /\ \A i \in 1..(Len(_layers) - 1) :
         Len(heap[_layers[i + 1]]) = (Len(heap[_layers[i]]) + 1) \div 2
    /\ Len(heap[_layers[Len(_layers)]]) = 1

\* the length a layer of n parents has in the stored stack
StoredLen(n) == IF n > 1 /\ n % 2 = 1 THEN n + 1 ELSE n

\* C9 amended: layer 0 is the padded leaf sequence, every stored layer has
\* half the length of the one below, plus one sentinel when that half is odd
\* and greater than 1, every non-root layer has even length, and the last
\* layer has length 1
C9_PaddedHalving ==
  pc = "built" =>
    /\ heap[_layers[1]] = PaddedInput
    /\ \A i \in 1..(Len(_layers) - 1) :
         /\ Len(heap[_layers[i + 1]]) = StoredLen(Len(heap[_layers[i]]) \div 2)
         /\ Len(heap[_layers[i]]) % 2 = 0
    /\ Len(heap[_layers[Len(_layers)]]) = 1

C9_Witness ==
  /\ pc = "built"
  /\ Len(heap[Input]) = 5
  /\ Len(_layers) = 4
  /\ Len(heap[_layers[2]]) = 4
  /\ heap[_layers[2]][4] = EMPTY

\* C10: the proof getProof returns has one entry per non-root layer of the
\* stored stack, and entry i is stored layer i at the sibling position of the
\* leaf's ancestor, the sentinel standing for an absent sibling
C10_ProofFromStack ==
  (pc = "built" /\ ret.op = "getProof" /\ ret.ok) =>
    /\ Len(ret.proof) = Len(_layers) - 1
    /\ ret.proof = StackProof(_bufferElementPositionIndex[toHex(ret.arg)])

C10_Witness ==
  /\ pc = "built"
  /\ Len(heap[Input]) = 5
  /\ ret.op = "getProof"
  /\ ret.ok
  /\ ret.arg = heap[Input][5]
  /\ Len(ret.proof) = 3
  /\ ret.proof[2] = EMPTY
====
